---- MODULE Spec2Model ----
(***************************************************************************)
(* Model of the MCP build server (src/src/server.ts): five tool handlers   *)
(* (delphi.build, delphi.clean, fpc.build, lazarus.build, lazarus.clean)   *)
(* that validate a path, build an argument vector, spawn one child process *)
(* through runCommand and format the child's outcome as a response.        *)
(*                                                                         *)
(* Strings are sequences of pieces.  Paths and user-supplied values are    *)
(* sequences of one-character pieces, so that extname, toLowerCase,        *)
(* basename, dirname and resolve work on characters; a literal of the      *)
(* source ('/t:Build', '/p:Config=') is one piece.  The empty string is    *)
(* <<>>.  An optional value (undefined | string, null | number) is None or *)
(* Some(v).                                                                *)
(***************************************************************************)
EXTENDS Integers, Sequences, FiniteSets, TLC

None == <<>>
Some(v) == <<v>>

\* JavaScript truthiness of an optional string: undefined and '' are falsy.
Truthy(o) == o /= None /\ o[1] /= <<>>

\* JavaScript a || b on optional strings.
OrElse(a, b) == IF Truthy(a) THEN a ELSE b

----------------------------------------------------------------------------
\* Bounds of the model.

\* Longest list of defines / unit paths / include paths of a compile request.
MaxList == 2

\* Most chunks a child process writes to one of its output streams.
MaxChunks == 2

----------------------------------------------------------------------------
\* node:path (POSIX flavour) on character sequences.

Sep == "/"
Dot == "."

\* process.cwd()
Cwd == <<"/", "w">>

\* String.prototype.toLowerCase on one character.
LowerChar(c) ==
    CASE c = "A" -> "a" [] c = "B" -> "b" [] c = "C" -> "c" [] c = "D" -> "d"
      [] c = "E" -> "e" [] c = "F" -> "f" [] c = "G" -> "g" [] c = "H" -> "h"
      [] c = "I" -> "i" [] c = "J" -> "j" [] c = "K" -> "k" [] c = "L" -> "l"
      [] c = "M" -> "m" [] c = "N" -> "n" [] c = "O" -> "o" [] c = "P" -> "p"
      [] c = "Q" -> "q" [] c = "R" -> "r" [] c = "S" -> "s" [] c = "T" -> "t"
      [] c = "U" -> "u" [] c = "V" -> "v" [] c = "W" -> "w" [] c = "X" -> "x"
      [] c = "Y" -> "y" [] c = "Z" -> "z" [] OTHER -> c

toLowerCase(s) == [i \in 1..Len(s) |-> LowerChar(s[i])]

\* Index of the last occurrence of character c in s, 0 when there is none.
LastIndexOf(s, c) ==
    LET I == {i \in 1..Len(s) : s[i] = c}
    IN  IF I = {} THEN 0 ELSE CHOOSE i \in I : \A j \in I : j <= i

\* path.basename(p): what follows the last separator.
basename(p) == SubSeq(p, LastIndexOf(p, Sep) + 1, Len(p))

\* path.dirname(p) of an absolute path without trailing separator.
dirname(p) ==
    LET k == LastIndexOf(p, Sep)
    IN  IF k = 0 THEN <<Dot>>
        ELSE IF k = 1 THEN <<Sep>>
        ELSE SubSeq(p, 1, k - 1)

\* path.extname(p): from the last '.' of the base name to its end; '' when the
\* base name has no '.', starts with its only '.', or is '..'.
extname(p) ==
    LET b == basename(p)
        k == LastIndexOf(b, Dot)
    IN  IF k <= 1 \/ b = <<Dot, Dot>> THEN <<>> ELSE SubSeq(b, k, Len(b))

\* path.resolve(p) for a path without '.'/'..' segments or trailing
\* separators: an absolute path is kept, a relative one is joined to the
\* working directory, '' is the working directory itself.
resolve(p) ==
    IF p = <<>> THEN Cwd
    ELSE IF p[1] = Sep THEN p
    ELSE Cwd \o <<Sep>> \o p

\* Array.prototype.join(sep) on a sequence of strings.
RECURSIVE Join(_, _)
Join(ss, sep) ==
    IF ss = <<>> THEN <<>>
    ELSE IF Len(ss) = 1 THEN ss[1]
    ELSE ss[1] \o sep \o Join(Tail(ss), sep)

\* Array.prototype.filter(Boolean) on a sequence of strings: drops ''.
RECURSIVE FilterBoolean(_)
FilterBoolean(ss) ==
    IF ss = <<>> THEN <<>>
    ELSE IF ss[1] = <<>> THEN FilterBoolean(Tail(ss))
    ELSE <<ss[1]>> \o FilterBoolean(Tail(ss))

\* '"' + p + '"'
Quoted(p) == <<"\"">> \o p \o <<"\"">>

----------------------------------------------------------------------------
\* State.

VARIABLES
    env,        \* process.env: the five variables the server reads
    fs,         \* the absolute paths that exist on disk
    schema,     \* the defaults fixed when the input schemas are defined
    serverUp,   \* FALSE once an uncaught exception has ended the process
    pc,         \* per request: where its handler is
    req,        \* per request: the tool called and its raw arguments
    spawns,     \* per request: the calls of spawn() made for it, in order
    child,      \* per request: its child process and the two pipes
    stdout,     \* per request: runCommand's stdout accumulator
    stderr,     \* per request: runCommand's stderr accumulator
    promise,    \* per request: the promise runCommand returned
    response    \* per request: what the handler returned or threw

vars == <<env, fs, schema, serverUp, pc, req, spawns, child, stdout, stderr,
          promise, response>>

\* existsSync(p): relative paths are looked up from the working directory.
existsSync(p) == resolve(p) \in fs

----------------------------------------------------------------------------
\* Input schemas: a field with .default(d) becomes d when it is undefined.

WithDefault(o, d) == IF o = None THEN Some(d) ELSE o

\* The defaults of BuildInput and CleanInput, computed once from process.env.
SchemaDefaults(e) ==
    [configuration |-> OrElse(e.DELPHI_CONFIG, Some(<<"Release">>))[1],
     platform      |-> OrElse(e.DELPHI_PLATFORM, Some(<<"Win32">>))[1]]

\* CleanInput with the configuration default of BuildInput.
CleanInputWithConfigDefault(raw) ==
    [raw EXCEPT !.configuration = WithDefault(@, schema.configuration),
                !.platform = WithDefault(@, schema.platform)]

BuildInput(raw) ==
    [raw EXCEPT !.configuration = WithDefault(@, schema.configuration),
                !.platform = WithDefault(@, schema.platform)]

CleanInput(raw) ==
    [raw EXCEPT !.platform = WithDefault(@, schema.platform)]

----------------------------------------------------------------------------
\* What the synchronous part of a helper does: it throws, or it calls
\* runCommand(cmd, args, {cwd}).

Throw(e) == [kind |-> "throw", error |-> e]
Run(cmd, args, cwd) == [kind |-> "run", cmd |-> cmd, args |-> args, cwd |-> cwd]

\* resolveDefaults with RSVARS_PATH tried before RSVARS_BAT.
resolveDefaultsPathFirst ==
    [rsvars |-> OrElse(env.RSVARS_PATH, env.RSVARS_BAT), msbuild |-> env.MSBUILD_PATH]

resolveDefaults ==
    [rsvars |-> OrElse(env.RSVARS_BAT, env.RSVARS_PATH), msbuild |-> env.MSBUILD_PATH]

\* ext === '.dproj' || '.groupproj': the second operand is always truthy.
isDelphiProjectAlwaysTruthy(file) ==
    LET ext == toLowerCase(extname(file))
    IN  ext = <<".", "d", "p", "r", "o", "j">> \/ TRUE

isDelphiProject(file) ==
    LET ext == toLowerCase(extname(file))
    IN  \/ ext = <<".", "d", "p", "r", "o", "j">>
        \/ ext = <<".", "g", "r", "o", "u", "p", "p", "r", "o", "j">>

\* The vector without .filter(Boolean).
MSBuildArgsUnfiltered(projPath, target, configuration, platform) ==
    << Quoted(projPath), <<target>>,
       <<"/p:Config=">> \o (IF Truthy(configuration) THEN configuration[1] ELSE <<>>),
       <<"/p:Platform=">> \o (IF Truthy(platform) THEN platform[1] ELSE <<>>) >>

\* The argument vector of buildWithMSBuild / cleanWithMSBuild.
MSBuildArgs(projPath, target, configuration, platform) ==
    FilterBoolean(
        << Quoted(projPath),
           <<target>>,
           IF Truthy(configuration) THEN <<"/p:Config=">> \o configuration[1] ELSE <<>>,
           IF Truthy(platform) THEN <<"/p:Platform=">> \o platform[1] ELSE <<>> >>)

\* `"@echo off && call "${rsvarsFinal}" && ${msbuildFinal} ${args.join(' ')}"`
Composite(rsvarsFinal, msbuildFinal, args) ==
    <<"\"", "@echo off", " && ", "call ", "\"">> \o rsvarsFinal \o <<"\"", " && ">>
        \o msbuildFinal \o <<" ">> \o Join(args, <<" ">>) \o <<"\"">>

\* The launch without the existsSync test of the script.
MSBuildLaunchNoExistsCheck(rsvarsFinal, msbuildFinal, args) ==
    IF Truthy(rsvarsFinal)
    THEN Run(<<"cmd">>, << <<"/s">>, <<"/c">>,
                          Composite(rsvarsFinal[1], msbuildFinal, args) >>, None)
    ELSE Run(msbuildFinal, args, None)

\* The launch both MSBuild helpers end with.
MSBuildLaunch(rsvarsFinal, msbuildFinal, args) ==
    IF Truthy(rsvarsFinal) /\ existsSync(rsvarsFinal[1])
    THEN Run(<<"cmd">>, << <<"/s">>, <<"/c">>,
                          Composite(rsvarsFinal[1], msbuildFinal, args) >>, None)
    ELSE Run(msbuildFinal, args, None)

MSBuild(in, target) ==
    LET projPath == resolve(in.project) IN
    IF ~existsSync(projPath) THEN Throw("not found")
    ELSE IF ~isDelphiProject(projPath) THEN Throw("unsupported")
    ELSE LET d == resolveDefaults
             rsvarsFinal == OrElse(in.rsvarsPath, d.rsvars)
             msbuildFinal == OrElse(in.msbuildPath, OrElse(d.msbuild, Some(<<"msbuild">>)))[1]
             args == MSBuildArgs(projPath, target, in.configuration, in.platform)
         IN  MSBuildLaunch(rsvarsFinal, msbuildFinal, args)

buildWithMSBuild(in) == MSBuild(in, "/t:Build")

cleanWithMSBuild(in) == MSBuild(in, "/t:Clean")

\* -------------------- FPC helpers --------------------
isFpcSource(file) ==
    LET ext == toLowerCase(extname(file))
    IN  \/ ext = <<".", "p", "a", "s">>
        \/ ext = <<".", "p", "p">>
        \/ ext = <<".", "p">>
        \/ ext = <<".", "l", "p", "r">>

\* xs.forEach(x => args.push(flag + f(x))) as the sequence pushed.
PushEach(flag, xs) == [i \in 1..Len(xs) |-> <<flag>> \o xs[i]]
PushEachResolved(flag, xs) == [i \in 1..Len(xs) |-> <<flag>> \o resolve(xs[i])]

\* A list argument that may be undefined: (xs || []).
OrEmpty(o) == IF o = None THEN <<>> ELSE o[1]

\* The vector with the include paths before the unit paths.
FpcArgsIncludeFirst(srcPath, in) ==
    (IF Truthy(in.cpu) THEN << <<"-P">> \o in.cpu[1] >> ELSE <<>>)
    \o (IF Truthy(in.os) THEN << <<"-T">> \o in.os[1] >> ELSE <<>>)
    \o (IF Truthy(in.output) THEN << <<"-o">> \o resolve(in.output[1]) >> ELSE <<>>)
    \o PushEach("-d", OrEmpty(in.defines))
    \o PushEachResolved("-Fi", OrEmpty(in.includePaths))
    \o PushEachResolved("-Fu", OrEmpty(in.unitPaths))
    \o << Quoted(srcPath) >>

\* The argument vector of buildWithFpc.
FpcArgs(srcPath, in) ==
    (IF Truthy(in.cpu) THEN << <<"-P">> \o in.cpu[1] >> ELSE <<>>)
    \o (IF Truthy(in.os) THEN << <<"-T">> \o in.os[1] >> ELSE <<>>)
    \o (IF Truthy(in.output) THEN << <<"-o">> \o resolve(in.output[1]) >> ELSE <<>>)
    \o PushEach("-d", OrEmpty(in.defines))
    \o PushEachResolved("-Fu", OrEmpty(in.unitPaths))
    \o PushEachResolved("-Fi", OrEmpty(in.includePaths))
    \o << Quoted(srcPath) >>

buildWithFpc(in) ==
    LET srcPath == resolve(in.source) IN
    IF ~existsSync(srcPath) THEN Throw("not found")
    ELSE IF ~isFpcSource(srcPath) THEN Throw("unsupported")
    ELSE LET args == FpcArgs(srcPath, in)
             compiler == OrElse(in.fpcPath, Some(<<"fpc">>))[1]
         IN  Run(compiler, args, Some(dirname(srcPath)))

\* -------------------- Lazarus helpers --------------------
isLazarusProject(file) == toLowerCase(extname(file)) = <<".", "l", "p", "i">>

\* The vector when the initial '--build-mode=' element is never popped.
LazarusBuildArgsNoPop(projPath, in) ==
    (IF Truthy(in.buildMode) THEN << <<"--build-mode=">> \o in.buildMode[1] >>
                             ELSE << <<"--build-mode=">> >>)
    \o (IF Truthy(in.cpu) THEN << <<"--cpu=">> \o in.cpu[1] >> ELSE <<>>)
    \o (IF Truthy(in.os) THEN << <<"--os=">> \o in.os[1] >> ELSE <<>>)
    \o << Quoted(projPath) >>

\* The argument vector of lazarusBuild: args starts as ['--build-mode='], and
\* that element is overwritten when buildMode is truthy, popped otherwise.
LazarusBuildArgs(projPath, in) ==
    (IF Truthy(in.buildMode) THEN << <<"--build-mode=">> \o in.buildMode[1] >> ELSE <<>>)
    \o (IF Truthy(in.cpu) THEN << <<"--cpu=">> \o in.cpu[1] >> ELSE <<>>)
    \o (IF Truthy(in.os) THEN << <<"--os=">> \o in.os[1] >> ELSE <<>>)
    \o << Quoted(projPath) >>

lazarusBuild(in) ==
    LET projPath == resolve(in.project) IN
    IF ~existsSync(projPath) THEN Throw("not found")
    ELSE IF ~isLazarusProject(projPath) THEN Throw("unsupported")
    ELSE LET args == LazarusBuildArgs(projPath, in)
             lazbuild == OrElse(in.lazbuildPath, Some(<<"lazbuild">>))[1]
         IN  Run(lazbuild, args, Some(dirname(projPath)))

\* lazarusClean without its existsSync test.
lazarusCleanNoExistsCheck(in) ==
    LET projPath == resolve(in.project) IN
    IF ~isLazarusProject(projPath) THEN Throw("unsupported")
    ELSE LET args == << <<"--clean">>, Quoted(projPath) >>
             lazbuild == OrElse(in.lazbuildPath, Some(<<"lazbuild">>))[1]
         IN  Run(lazbuild, args, Some(dirname(projPath)))

lazarusClean(in) ==
    LET projPath == resolve(in.project) IN
    IF ~existsSync(projPath) THEN Throw("not found")
    ELSE IF ~isLazarusProject(projPath) THEN Throw("unsupported")
    ELSE LET args == << <<"--clean">>, Quoted(projPath) >>
             lazbuild == OrElse(in.lazbuildPath, Some(<<"lazbuild">>))[1]
         IN  Run(lazbuild, args, Some(dirname(projPath)))

----------------------------------------------------------------------------
\* runCommand and the child process.

\* What spawn() can do: start the child; fail with an errno that Node reports
\* later as an 'error' event (ENOENT, EACCES, EAGAIN, ...); or throw at once.
SpawnOutcomes == {"started", "error event", "throws"}

\* The exit code 'close' reports: a number, or null when a signal ended it.
ExitCodes == {None, Some(0), Some(1)}

\* The byte chunks a child writes: 'a', the two bytes of U+00E9, and the
\* first of those two bytes alone.
Chunks == {<<"61">>, <<"C3", "A9">>, <<"C3">>}

\* Buffer.prototype.toString(): UTF-8 decoding of one chunk on its own; a
\* byte that does not form a complete character becomes U+FFFD.
RECURSIVE toString(_)
toString(d) ==
    IF d = <<>> THEN <<>>
    ELSE IF d[1] = "61" THEN <<"a">> \o toString(Tail(d))
    ELSE IF d[1] = "C3" /\ Len(d) >= 2 /\ d[2] = "A9"
         THEN <<"U+00E9">> \o toString(Tail(Tail(d)))
    ELSE <<"U+FFFD">> \o toString(Tail(d))

NoChild ==
    [state |-> "none", code |-> None, outPipe |-> <<>>, errPipe |-> <<>>,
     outSent |-> <<>>, errSent |-> <<>>]

Pending == [state |-> "pending"]
Rejected == [state |-> "rejected"]
Fulfilled(code, out, err) ==
    [state |-> "fulfilled", code |-> code, stdout |-> out, stderr |-> err]

NoResponse == [kind |-> "none"]
ErrorResponse(e) == [kind |-> "error", error |-> e]

\* runCommand(cmd, args, options) for request r, with spawn() doing o.
runCommand(r, run, o) ==
    /\ spawns' = [spawns EXCEPT ![r] =
            Append(@, [cmd |-> run.cmd, args |-> run.args, cwd |-> run.cwd,
                       shell |-> TRUE])]
    /\ stdout' = [stdout EXCEPT ![r] = <<>>]
    /\ stderr' = [stderr EXCEPT ![r] = <<>>]
    /\ child' = [child EXCEPT ![r] =
            [NoChild EXCEPT !.state =
                CASE o = "started" -> "running"
                  [] o = "error event" -> "failing"
                  [] OTHER -> "none"]]
    /\ promise' = [promise EXCEPT ![r] = IF o = "throws" THEN Rejected ELSE Pending]

\* A request can be taken up: the server runs and the request is new.
CanHandle(r) == serverUp /\ pc[r] = "idle"

\* The synchronous part of a tool handler: the helper runs up to its
\* await runCommand(...), or throws before it.
Handle(r, tool, raw, outcome) ==
    /\ req' = [req EXCEPT ![r] = [tool |-> tool, input |-> raw]]
    /\ IF outcome.kind = "throw"
       THEN /\ pc' = [pc EXCEPT ![r] = "done"]
            /\ response' = [response EXCEPT ![r] = ErrorResponse(outcome.error)]
            /\ UNCHANGED <<spawns, child, stdout, stderr, promise>>
       ELSE /\ pc' = [pc EXCEPT ![r] = "awaiting"]
            /\ \E o \in SpawnOutcomes : runCommand(r, outcome, o)
            /\ UNCHANGED response
    /\ UNCHANGED <<env, fs, schema, serverUp>>

DelphiBuild(r, Inputs) ==
    /\ CanHandle(r)
    /\ \E raw \in Inputs : Handle(r, "delphi.build", raw, buildWithMSBuild(BuildInput(raw)))

DelphiClean(r, Inputs) ==
    /\ CanHandle(r)
    /\ \E raw \in Inputs : Handle(r, "delphi.clean", raw, cleanWithMSBuild(CleanInput(raw)))

FpcBuild(r, Inputs) ==
    /\ CanHandle(r)
    /\ \E raw \in Inputs : Handle(r, "fpc.build", raw, buildWithFpc(raw))

LazarusBuild(r, Inputs) ==
    /\ CanHandle(r)
    /\ \E raw \in Inputs : Handle(r, "lazarus.build", raw, lazarusBuild(raw))

LazarusClean(r, Inputs) ==
    /\ CanHandle(r)
    /\ \E raw \in Inputs : Handle(r, "lazarus.clean", raw, lazarusClean(raw))

\* The child writes a chunk to its stdout / stderr pipe.
ChildWrites(r) == Len(child[r].outSent) + Len(child[r].errSent)

ChildWriteStdout(r) ==
    /\ child[r].state = "running"
    /\ ChildWrites(r) < MaxChunks
    /\ \E d \in Chunks :
         child' = [child EXCEPT ![r].outPipe = Append(@, d), ![r].outSent = Append(@, d)]
    /\ UNCHANGED <<env, fs, schema, serverUp, pc, req, spawns, stdout, stderr,
                   promise, response>>

ChildWriteStderr(r) ==
    /\ child[r].state = "running"
    /\ ChildWrites(r) < MaxChunks
    /\ \E d \in Chunks :
         child' = [child EXCEPT ![r].errPipe = Append(@, d), ![r].errSent = Append(@, d)]
    /\ UNCHANGED <<env, fs, schema, serverUp, pc, req, spawns, stdout, stderr,
                   promise, response>>

\* The listener when stdout is one variable of the module, not of the call:
\* every request's accumulator receives the chunk.
OnStdoutDataShared(r) ==
    /\ serverUp
    /\ child[r].outPipe /= <<>>
    /\ stdout' = [q \in DOMAIN stdout |-> stdout[q] \o toString(Head(child[r].outPipe))]
    /\ child' = [child EXCEPT ![r].outPipe = Tail(@)]
    /\ UNCHANGED <<env, fs, schema, serverUp, pc, req, spawns, stderr, promise, response>>

\* child.stdout.on('data', (d) => { stdout += d.toString(); })
OnStdoutData(r) ==
    /\ serverUp
    /\ child[r].outPipe /= <<>>
    /\ stdout' = [stdout EXCEPT ![r] = @ \o toString(Head(child[r].outPipe))]
    /\ child' = [child EXCEPT ![r].outPipe = Tail(@)]
    /\ UNCHANGED <<env, fs, schema, serverUp, pc, req, spawns, stderr, promise, response>>

\* child.stderr.on('data', (d) => { stderr += d.toString(); })
OnStderrData(r) ==
    /\ serverUp
    /\ child[r].errPipe /= <<>>
    /\ stderr' = [stderr EXCEPT ![r] = @ \o toString(Head(child[r].errPipe))]
    /\ child' = [child EXCEPT ![r].errPipe = Tail(@)]
    /\ UNCHANGED <<env, fs, schema, serverUp, pc, req, spawns, stdout, promise, response>>

\* The child process ends, with an exit code or by a signal.
ChildExit(r) ==
    /\ child[r].state = "running"
    /\ \E code \in ExitCodes :
         child' = [child EXCEPT ![r].state = "exited", ![r].code = code]
    /\ UNCHANGED <<env, fs, schema, serverUp, pc, req, spawns, stdout, stderr,
                   promise, response>>

\* The listener on 'exit' instead: the pipes may still hold chunks.
ResolveOnExit(c) == c.state = "exited"

\* When the listener that resolves the promise runs: 'close' is emitted after
\* the process has ended and both stdio streams have been read to their end.
ResolveEvent(c) == c.state = "exited" /\ c.outPipe = <<>> /\ c.errPipe = <<>>

\* child.on('close', (code) => resolvePromise({ code, stdout, stderr }))
OnClose(r) ==
    /\ serverUp
    /\ ResolveEvent(child[r])
    /\ promise[r].state = "pending"
    /\ child' = [child EXCEPT ![r].state = "closed"]
    /\ promise' = [promise EXCEPT ![r] = Fulfilled(child[r].code, stdout[r], stderr[r])]
    /\ UNCHANGED <<env, fs, schema, serverUp, pc, req, spawns, stdout, stderr, response>>

\* The 'error' event of a child that could not be started: runCommand
\* registers no 'error' listener, so emitting it throws, nothing catches the
\* exception, and the server process ends with the promise still pending.
OnSpawnError(r) ==
    /\ serverUp
    /\ child[r].state = "failing"
    /\ child' = [child EXCEPT ![r].state = "errored"]
    /\ serverUp' = FALSE
    /\ UNCHANGED <<env, fs, schema, pc, req, spawns, stdout, stderr, promise, response>>

----------------------------------------------------------------------------
\* The rest of a tool handler, after its await.

\* `${code}` in a template literal.
CodeText(code) ==
    CASE code = None -> "null" [] code = Some(0) -> "0" [] OTHER -> "1"

\* The words each handler puts in its status line.
Label(tool) ==
    CASE tool = "delphi.build" -> "Build"
      [] tool = "delphi.clean" -> "Clean"
      [] tool = "fpc.build" -> "FPC build"
      [] tool = "lazarus.build" -> "Lazarus build"
      [] OTHER -> "Lazarus clean"

\* req.project, or req.source for fpc.build.
InputPath(q) == IF q.tool = "fpc.build" THEN q.input.source ELSE q.input.project

\* ok = !code: null counts as success.
OkTruthy(code) == code = None \/ code = Some(0)

\* ok = (code === 0)
Ok(code) == code = Some(0)

FormatResponse(q, result) ==
    LET ok == Ok(result.code) IN
    [kind    |-> "result",
     content |-> << <<Label(q.tool), IF ok THEN " succeeded for " ELSE " failed for ">>
                        \o basename(InputPath(q)),
                    <<"Exit code: ", CodeText(result.code)>>,
                    <<"--- STDOUT ---\n">> \o result.stdout,
                    <<"--- STDERR ---\n">> \o result.stderr >>,
     isError |-> ~ok]

\* A handler that throws when the exit code is not 0.
ResumeThrowsOnFailure(r) ==
    /\ serverUp
    /\ pc[r] = "awaiting"
    /\ promise[r].state \in {"fulfilled", "rejected"}
    /\ pc' = [pc EXCEPT ![r] = "done"]
    /\ response' = [response EXCEPT ![r] =
            IF promise[r].state = "fulfilled" /\ promise[r].code = Some(0)
            THEN FormatResponse(req[r], promise[r])
            ELSE ErrorResponse("spawn failed")]
    /\ UNCHANGED <<env, fs, schema, serverUp, req, spawns, child, stdout, stderr, promise>>

\* The handler resumes when the promise is settled: it formats the result, or
\* the rejection leaves it as the handler's own error.
Resume(r) ==
    /\ serverUp
    /\ pc[r] = "awaiting"
    /\ promise[r].state \in {"fulfilled", "rejected"}
    /\ pc' = [pc EXCEPT ![r] = "done"]
    /\ response' = [response EXCEPT ![r] =
            IF promise[r].state = "fulfilled"
            THEN FormatResponse(req[r], promise[r])
            ELSE ErrorResponse("spawn failed")]
    /\ UNCHANGED <<env, fs, schema, serverUp, req, spawns, child, stdout, stderr, promise>>

----------------------------------------------------------------------------
\* The world the requests are drawn from.

ExtDproj == <<".", "d", "p", "r", "o", "j">>
ExtGroupproj == <<".", "g", "r", "o", "u", "p", "p", "r", "o", "j">>
ExtPas == <<".", "p", "a", "s">>
ExtPp == <<".", "p", "p">>
ExtP == <<".", "p">>
ExtLpr == <<".", "l", "p", "r">>
ExtLpi == <<".", "l", "p", "i">>
ExtTxt == <<".", "t", "x", "t">>

Exts ==
    {ExtDproj, <<".", "D", "P", "R", "O", "J">>, ExtGroupproj, ExtPas, ExtPp, ExtP,
     ExtLpr, <<".", "L", "p", "r">>, ExtLpi, <<".", "L", "P", "I">>, ExtTxt, <<>>}

\* Files named a... exist, files named n... do not.
Stems == {<<"a">>, <<"n">>}

AllPaths ==
    {st \o e : st \in Stems, e \in Exts}
        \cup {<<"/">> \o <<"a">> \o ExtDproj,       \* an absolute path
              ExtDproj,                              \* a dot file: no extension
              <<"d", "/", "a">> \o ExtPas,           \* in a subdirectory
              <<"d", "/", "a">> \o ExtLpi}

ExistingProjects == {resolve(p) : p \in {q \in AllPaths : q[1] /= "n"}}

\* Three initialization scripts: the one requests name, and the two the
\* environment can name.
ScriptReq == <<"/", "x">>
ScriptBat == <<"/", "b">>
ScriptPath == <<"/", "p">>

OneOrNone(v) == {None, Some(v)}

EnvNone ==
    [RSVARS_BAT |-> None, RSVARS_PATH |-> None, MSBUILD_PATH |-> None,
     DELPHI_CONFIG |-> None, DELPHI_PLATFORM |-> None]

EnvAll ==
    [RSVARS_BAT |-> Some(ScriptBat), RSVARS_PATH |-> Some(ScriptPath),
     MSBUILD_PATH |-> Some(<<"mb">>), DELPHI_CONFIG |-> Some(<<"Debug">>),
     DELPHI_PLATFORM |-> Some(<<"Linux64">>)]

Envs ==
    [RSVARS_BAT : OneOrNone(ScriptBat), RSVARS_PATH : OneOrNone(ScriptPath),
     MSBUILD_PATH : OneOrNone(<<"mb">>), DELPHI_CONFIG : OneOrNone(<<"Debug">>),
     DELPHI_PLATFORM : OneOrNone(<<"Linux64">>)]

\* Which scripts exist: none, all, those of the environment, the last only.
ScriptSets ==
    {{}, {ScriptReq, ScriptBat, ScriptPath}, {ScriptBat, ScriptPath}, {ScriptPath}}

\* Sequences over S of length at most n.
RECURSIVE SeqsUpTo(_, _)
SeqsUpTo(S, n) ==
    IF n = 0 THEN {<<>>}
    ELSE LET shorter == SeqsUpTo(S, n - 1)
         IN  shorter \cup {Append(q, x) : q \in shorter, x \in S}

BuildRequestsOver(P, C, Pl, M, R) ==
    [project : P, configuration : C, platform : Pl, msbuildPath : M, rsvarsPath : R]

FpcRequestsOver(P, O, L, C, Os, F) ==
    {[source |-> src, output |-> o, defines |-> l[1], unitPaths |-> l[2],
      includePaths |-> l[3], cpu |-> c, os |-> x, fpcPath |-> f] :
        src \in P, o \in O, l \in L, c \in C, x \in Os, f \in F}

LazarusBuildRequestsOver(P, B, C, Os, L) ==
    [project : P, buildMode : B, cpu : C, os : Os, lazbuildPath : L]

LazarusCleanRequestsOver(P, L) == [project : P, lazbuildPath : L]

\* The requests of the full life cycle: every path, few options.
BuildRequests ==
    BuildRequestsOver(AllPaths, {None}, {None}, {None}, OneOrNone(ScriptReq))

FpcRequests ==
    FpcRequestsOver(AllPaths, {None}, {<<None, None, None>>},
                    {None}, {None}, OneOrNone(<<"fp">>))

LazarusBuildRequests ==
    LazarusBuildRequestsOver(AllPaths, {None}, {None}, {None}, {None})

LazarusCleanRequests == LazarusCleanRequestsOver(AllPaths, {None})

\* The requests, one handler each.
Requests == {1}

InitRequests ==
    /\ serverUp = TRUE
    /\ pc = [r \in Requests |-> "idle"]
    /\ req = [r \in Requests |-> [tool |-> "none"]]
    /\ spawns = [r \in Requests |-> <<>>]
    /\ child = [r \in Requests |-> NoChild]
    /\ stdout = [r \in Requests |-> <<>>]
    /\ stderr = [r \in Requests |-> <<>>]
    /\ promise = [r \in Requests |-> [state |-> "none"]]
    /\ response = [r \in Requests |-> NoResponse]

Init ==
    /\ \E w \in {<<EnvNone, {}>>, <<EnvAll, {ScriptReq, ScriptBat, ScriptPath}>>} :
         /\ env = w[1]
         /\ fs = ExistingProjects \cup w[2]
    /\ schema = SchemaDefaults(env)
    /\ InitRequests

Next ==
    \/ \E r \in Requests : DelphiBuild(r, BuildRequests)
    \/ \E r \in Requests : DelphiClean(r, BuildRequests)
    \/ \E r \in Requests : FpcBuild(r, FpcRequests)
    \/ \E r \in Requests : LazarusBuild(r, LazarusBuildRequests)
    \/ \E r \in Requests : LazarusClean(r, LazarusCleanRequests)
    \/ \E r \in Requests : ChildWriteStdout(r)
    \/ \E r \in Requests : ChildWriteStderr(r)
    \/ \E r \in Requests : OnStdoutData(r)
    \/ \E r \in Requests : OnStderrData(r)
    \/ \E r \in Requests : ChildExit(r)
    \/ \E r \in Requests : OnClose(r)
    \/ \E r \in Requests : OnSpawnError(r)
    \/ \E r \in Requests : Resume(r)

Spec == Init /\ [][Next]_vars

----------------------------------------------------------------------------
\* The MSBuild helpers on their own: every environment, every combination of
\* options, a few paths.

MSBuildPaths ==
    {<<"a">> \o ExtDproj, <<"/", "a">> \o ExtDproj, <<"a">> \o ExtTxt, <<"n">> \o ExtDproj}

AbsentEmptyOr(v) == {None, Some(<<>>), Some(v)}

AllBuildRequests ==
    BuildRequestsOver(MSBuildPaths, AbsentEmptyOr(<<"Release">>), AbsentEmptyOr(<<"Win64">>),
                      AbsentEmptyOr(<<"m2">>), AbsentEmptyOr(ScriptReq))

InitMSBuild ==
    /\ env \in Envs
    /\ \E scripts \in ScriptSets : fs = ExistingProjects \cup scripts
    /\ schema = SchemaDefaults(env)
    /\ InitRequests

NextMSBuild ==
    \/ \E r \in Requests : DelphiBuild(r, AllBuildRequests)
    \/ \E r \in Requests : DelphiClean(r, AllBuildRequests)

SpecMSBuild == InitMSBuild /\ [][NextMSBuild]_vars

\* The compiler and lazbuild helpers on their own: every combination of
\* options and lists, a few paths.

FpcPaths ==
    {<<"a">> \o ExtPas, <<"d", "/", "a">> \o ExtPas, <<"a">> \o ExtLpr, <<"a">> \o ExtTxt,
     <<"n">> \o ExtPas}

LazarusPaths ==
    {<<"a">> \o ExtLpi, <<"d", "/", "a">> \o ExtLpi, <<"a">> \o ExtTxt, <<"n">> \o ExtLpi}

\* A list argument: undefined, or a non-empty list.
ListArg(q) == IF q = <<>> THEN None ELSE Some(q)

\* The defines, unit paths and include paths of a request: at most MaxList
\* entries in all.
ListTriples ==
    {<<ListArg(d), ListArg(u), ListArg(i)>> :
        <<d, u, i>> \in
            {t \in SeqsUpTo({<<"A">>, <<"B=1">>}, MaxList)
                    \X SeqsUpTo({<<"u">>, <<"/", "v">>}, MaxList)
                    \X SeqsUpTo({<<"i">>, <<"/", "j">>}, MaxList) :
                Len(t[1]) + Len(t[2]) + Len(t[3]) <= MaxList}}

AllFpcRequests ==
    FpcRequestsOver(FpcPaths, {None, Some(<<"o">>), Some(<<"/", "o">>)}, ListTriples,
                    AbsentEmptyOr(<<"x86_64">>), OneOrNone(<<"win64">>),
                    OneOrNone(<<"fp">>))

AllLazarusBuildRequests ==
    LazarusBuildRequestsOver(LazarusPaths, AbsentEmptyOr(<<"Release">>),
                             AbsentEmptyOr(<<"x86_64">>), OneOrNone(<<"win64">>),
                             OneOrNone(<<"lb">>))

AllLazarusCleanRequests == LazarusCleanRequestsOver(LazarusPaths, AbsentEmptyOr(<<"lb">>))

InitFpc ==
    /\ env = EnvNone
    /\ fs = ExistingProjects
    /\ schema = SchemaDefaults(env)
    /\ InitRequests

NextFpc ==
    \/ \E r \in Requests : FpcBuild(r, AllFpcRequests)
    \/ \E r \in Requests : LazarusBuild(r, AllLazarusBuildRequests)
    \/ \E r \in Requests : LazarusClean(r, AllLazarusCleanRequests)

SpecFpc == InitFpc /\ [][NextFpc]_vars

----------------------------------------------------------------------------
\* Two requests handled concurrently: the handlers are async functions, so
\* between the await of one and its resumption the event loop runs the
\* handler and the listeners of the other in any order.

ConcRequests == {1, 2}

ConcFpcRequests ==
    FpcRequestsOver({<<"a">> \o ExtPas, <<"n">> \o ExtPas}, {None},
                    {<<None, None, None>>}, {None}, {None}, {None})

ConcLazarusCleanRequests == LazarusCleanRequestsOver({<<"a">> \o ExtLpi}, {None})

\* The chunks written so far by all children together.
ConcWrites == ChildWrites(1) + ChildWrites(2)

InitConc ==
    /\ env = EnvNone
    /\ fs = ExistingProjects
    /\ schema = SchemaDefaults(env)
    /\ serverUp = TRUE
    /\ pc = [r \in ConcRequests |-> "idle"]
    /\ req = [r \in ConcRequests |-> [tool |-> "none"]]
    /\ spawns = [r \in ConcRequests |-> <<>>]
    /\ child = [r \in ConcRequests |-> NoChild]
    /\ stdout = [r \in ConcRequests |-> <<>>]
    /\ stderr = [r \in ConcRequests |-> <<>>]
    /\ promise = [r \in ConcRequests |-> [state |-> "none"]]
    /\ response = [r \in ConcRequests |-> NoResponse]

NextConc ==
    \/ \E r \in ConcRequests : FpcBuild(r, ConcFpcRequests)
    \/ \E r \in ConcRequests : LazarusClean(r, ConcLazarusCleanRequests)
    \/ \E r \in ConcRequests : ConcWrites < MaxChunks /\ ChildWriteStdout(r)
    \/ \E r \in ConcRequests : ConcWrites < MaxChunks /\ ChildWriteStderr(r)
    \/ \E r \in ConcRequests : OnStdoutData(r)
    \/ \E r \in ConcRequests : OnStderrData(r)
    \/ \E r \in ConcRequests : ChildExit(r)
    \/ \E r \in ConcRequests : OnClose(r)
    \/ \E r \in ConcRequests : OnSpawnError(r)
    \/ \E r \in ConcRequests : Resume(r)

SpecConc == InitConc /\ [][NextConc]_vars

\* The event loop runs every listener and continuation that is ready: a
\* 'data', 'close' or 'error' event that can be emitted is emitted, and a
\* handler whose promise is settled resumes. Nothing obliges a child to write
\* or to end, nor a client to send a request.
EventLoopFairness ==
    \A r \in ConcRequests :
        /\ WF_vars(OnStdoutData(r))
        /\ WF_vars(OnStderrData(r))
        /\ WF_vars(OnClose(r))
        /\ WF_vars(OnSpawnError(r))
        /\ WF_vars(Resume(r))

SpecConcFair == InitConc /\ [][NextConc]_vars /\ EventLoopFairness

----------------------------------------------------------------------------
\* Properties of the life cycle (Spec).

Received(r) == req[r].tool /= "none"

\* The resolved input path of request r and its lower-cased extension.
ResolvedPath(r) == resolve(InputPath(req[r]))
LowerExt(r) == toLowerCase(extname(ResolvedPath(r)))

OnDisk(r) == ResolvedPath(r) \in fs

\* C1: whatever the tool, a request whose resolved input path is not on disk
\* ends with the not-found error, and no spawn() call is ever made for it.
C1_NotFoundBeforeSpawn ==
    \A r \in Requests :
        (Received(r) /\ ~OnDisk(r)) =>
            /\ pc[r] = "done"
            /\ response[r] = ErrorResponse("not found")
            /\ spawns[r] = <<>>
            /\ child[r] = NoChild

C1_Witness ==
    \E r \in Requests :
        /\ req[r].tool = "lazarus.clean"
        /\ ~OnDisk(r)
        /\ LowerExt(r) = ExtLpi
        /\ response[r] = ErrorResponse("not found")

\* The accepted extensions as the claim lists them, and as the code has them.
ClaimedExts(tool) ==
    CASE tool \in {"delphi.build", "delphi.clean"} -> {ExtDproj, ExtGroupproj}
      [] tool = "fpc.build" -> {ExtLpr, ExtPas, ExtPp}
      [] OTHER -> {ExtLpi}

AcceptedExts(tool) ==
    CASE tool \in {"delphi.build", "delphi.clean"} -> {ExtDproj, ExtGroupproj}
      [] tool = "fpc.build" -> {ExtLpr, ExtPas, ExtPp, ExtP}
      [] OTHER -> {ExtLpi}

Unsupported(r) ==
    /\ pc[r] = "done"
    /\ response[r] = ErrorResponse("unsupported")
    /\ spawns[r] = <<>>
    /\ child[r] = NoChild

C3_ErrorFlagIffNonZero ==
    \A r \in Requests :
        response[r].kind = "result" =>
            /\ response[r].isError <=> (child[r].code = None \/ child[r].code /= Some(0))
            /\ ~response[r].isError <=> child[r].code = Some(0)
            /\ (response[r].content[1][2] = " succeeded for ") <=> ~response[r].isError

C3_Witness ==
    \E r \in Requests :
        /\ response[r].kind = "result"
        /\ child[r].code = None
        /\ response[r].isError
        /\ response[r].content[1][2] = " failed for "

\* C7: when the child cannot be started, the promise of runCommand is
\* rejected and the server goes on: the failure is never left pending.
C7_SpawnFailureRejects ==
    \A r \in Requests :
        child[r].state = "errored" => (serverUp /\ promise[r].state = "rejected")

\* A request that passed validation: its helper did not throw before spawning.
Validated(r) ==
    /\ Received(r)
    /\ response[r] \notin {ErrorResponse("not found"), ErrorResponse("unsupported")}

\* C8: a request that passed validation has made exactly one spawn() call,
\* whatever happens later, and a child that ended with a code other than 0
\* gives an ordinary response with the error flag set, never a thrown error.
C8_SingleAttempt ==
    \A r \in Requests :
        /\ Len(spawns[r]) <= 1
        /\ Validated(r) => Len(spawns[r]) = 1
        /\ (pc[r] = "done" /\ child[r].state = "closed") =>
                /\ response[r].kind = "result"
                /\ response[r].isError = (child[r].code /= Some(0))

C8_Witness ==
    \E r \in Requests :
        /\ pc[r] = "done"
        /\ child[r].state = "closed"
        /\ child[r].code = Some(1)
        /\ response[r].kind = "result"
        /\ Len(spawns[r]) = 1

\* The text of a stream: its chunks, each decoded on its own, in the order
\* the child wrote them.
RECURSIVE TextOf(_)
TextOf(sent) == IF sent = <<>> THEN <<>> ELSE toString(Head(sent)) \o TextOf(Tail(sent))

\* C10: the promise is fulfilled only once the child has closed; its stdout
\* and stderr are then all the chunks the child wrote to that stream, in
\* order, and its code is the one the child ended with (null if none).
C10_ResultAtClose ==
    \A r \in Requests :
        promise[r].state = "fulfilled" =>
            /\ child[r].state = "closed"
            /\ child[r].outPipe = <<>> /\ child[r].errPipe = <<>>
            /\ promise[r].stdout = TextOf(child[r].outSent)
            /\ promise[r].stderr = TextOf(child[r].errSent)
            /\ promise[r].code = child[r].code

C10_Witness ==
    \E r \in Requests :
        /\ promise[r].state = "fulfilled"
        /\ Len(child[r].outSent) = 2
        /\ child[r].outSent[1] /= child[r].outSent[2]
        /\ promise[r].code = None

----------------------------------------------------------------------------
\* Properties of concurrently handled requests (SpecConc).

\* What the child of r produced: its exit code and the text of the chunks it
\* wrote on each stream.
OwnResult(r) ==
    [code |-> child[r].code, stdout |-> TextOf(child[r].outSent),
     stderr |-> TextOf(child[r].errSent)]

\* C11: whatever the interleaving of two requests, the result runCommand
\* resolves with for a request, and the response formatted from it, hold the
\* exit code and exactly the stdout and stderr chunks of that request's own
\* child: nothing of the other request's child, and nothing missing.
C11_ResultsIsolated ==
    \A r \in ConcRequests :
        /\ promise[r].state = "fulfilled" =>
              /\ promise[r].code = OwnResult(r).code
              /\ promise[r].stdout = OwnResult(r).stdout
              /\ promise[r].stderr = OwnResult(r).stderr
        /\ response[r].kind = "result" =>
              response[r] = FormatResponse(req[r], OwnResult(r))

\* Both requests were in flight together (both results are there and neither
\* handler has resumed), and their children wrote different output.
C11_Witness ==
    /\ \A r \in ConcRequests : pc[r] = "awaiting" /\ promise[r].state = "fulfilled"
    /\ promise[1].stdout = <<"a">> /\ promise[1].stderr = <<>>
    /\ promise[2].stdout = <<>> /\ promise[2].stderr = <<"U+00E9">>
    /\ promise[1].code /= promise[2].code

\* spawn() started a child process for r; that child has ended; r has its
\* response.
Spawned(r) == child[r].state \in {"running", "exited", "closed"}
Terminated(r) == child[r].state \in {"exited", "closed"}
Responded(r) == response[r].kind /= "none"

\* C12: once a child has been spawned for a request, the request has no
\* response while the child has not ended, and if the child ends the request
\* eventually has its response.
C12_CompletesByTermination ==
    /\ [](\A r \in ConcRequests : (Spawned(r) /\ Responded(r)) => Terminated(r))
    /\ \A r \in ConcRequests : Terminated(r) ~> Responded(r)

----------------------------------------------------------------------------
\* Properties of the MSBuild helpers (SpecMSBuild).

IsMSBuild(r) == req[r].tool \in {"delphi.build", "delphi.clean"}

Target(r) == IF req[r].tool = "delphi.build" THEN "/t:Build" ELSE "/t:Clean"

\* q occurs in s as a run of consecutive pieces.
Contains(s, q) == \E i \in 0..(Len(s) - Len(q)) : SubSeq(s, i + 1, i + Len(q)) = q

EndsWith(s, q) == Len(q) <= Len(s) /\ SubSeq(s, Len(s) - Len(q) + 1, Len(s)) = q

\* The script path a request supplies: its own, or the environment's.
SuppliedScript(r) ==
    IF Truthy(req[r].input.rsvarsPath) THEN req[r].input.rsvarsPath
    ELSE IF Truthy(env.RSVARS_BAT) THEN env.RSVARS_BAT
    ELSE env.RSVARS_PATH

\* The build tool of a request: its own, the environment's, or msbuild.
SuppliedTool(r) ==
    IF Truthy(req[r].input.msbuildPath) THEN req[r].input.msbuildPath[1]
    ELSE IF Truthy(env.MSBUILD_PATH) THEN env.MSBUILD_PATH[1]
    ELSE <<"msbuild">>

ScriptOnDisk(r) == Truthy(SuppliedScript(r)) /\ resolve(SuppliedScript(r)[1]) \in fs

\* The one launch of r is the command interpreter, given one instruction in
\* which the script is called and, after &&, the tool is run on the project.
WrappedLaunch(r) ==
    /\ Len(spawns[r]) = 1
    /\ spawns[r][1].cmd = <<"cmd">>
    /\ Len(spawns[r][1].args) = 3
    /\ Contains(spawns[r][1].args[3],
                <<"call ", "\"">> \o SuppliedScript(r)[1] \o <<"\"", " && ">>
                    \o SuppliedTool(r) \o <<" ">> \o Quoted(ResolvedPath(r))
                    \o <<" ", Target(r)>>)

\* The one launch of r is the tool itself, given the argument vector.
DirectLaunch(r) ==
    /\ Len(spawns[r]) = 1
    /\ spawns[r][1].cmd = SuppliedTool(r)
    /\ spawns[r][1].args[1] = Quoted(ResolvedPath(r))
    /\ \A i \in 1..Len(spawns[r][1].args) :
         " && " \notin {spawns[r][1].args[i][k] : k \in 1..Len(spawns[r][1].args[i])}

\* C4: a validated project build/clean request makes one launch (one call of
\* spawn): of the command interpreter with script && tool in one instruction
\* when the supplied script path is on disk; otherwise of the tool itself with
\* the argument vector, not wrapped in cmd /s /c by the helper.
C4_WrapIffScriptOnDisk ==
    \A r \in Requests :
        (Validated(r) /\ IsMSBuild(r)) =>
            IF ScriptOnDisk(r) THEN WrappedLaunch(r) ELSE DirectLaunch(r)

C4_Witness ==
    \E r \in Requests :
        /\ Validated(r) /\ IsMSBuild(r)
        /\ ~Truthy(req[r].input.rsvarsPath)
        /\ ScriptOnDisk(r)
        /\ WrappedLaunch(r)

\* The argument vector the helper built for r: the arguments of a direct
\* launch; in a wrapped launch, what follows the tool in the instruction.
BuiltVector(r, expected) ==
    IF spawns[r][1].cmd = <<"cmd">>
    THEN EndsWith(spawns[r][1].args[3],
                  <<" && ">> \o SuppliedTool(r) \o <<" ">> \o Join(expected, <<" ">>)
                      \o <<"\"">>)
    ELSE spawns[r][1].args = expected

\* The configuration and platform the helper is called with.
Parsed(r) ==
    IF req[r].tool = "delphi.build" THEN BuildInput(req[r].input)
    ELSE CleanInput(req[r].input)

NonEmpty(o) == o /= None /\ o[1] /= <<>>

ExpectedMSBuildVector(r) ==
    LET c == Parsed(r).configuration
        p == Parsed(r).platform
    IN  << Quoted(ResolvedPath(r)), <<Target(r)>> >>
            \o (IF NonEmpty(c) THEN << <<"/p:Config=">> \o c[1] >> ELSE <<>>)
            \o (IF NonEmpty(p) THEN << <<"/p:Platform=">> \o p[1] >> ELSE <<>>)

\* C5: the argument vector of a project build/clean is the quoted absolute
\* path, the target flag, /p:Config=<configuration> if the configuration is
\* not empty and /p:Platform=<platform> if the platform is not empty, in
\* this order and nothing else.
C5_MSBuildVector ==
    \A r \in Requests :
        (Validated(r) /\ IsMSBuild(r)) => BuiltVector(r, ExpectedMSBuildVector(r))

C5_Witness ==
    \E r \in Requests :
        /\ Validated(r)
        /\ req[r].tool = "delphi.clean"
        /\ req[r].input.configuration = None
        /\ req[r].input.platform = Some(<<>>)
        /\ spawns[r][1].args = << Quoted(ResolvedPath(r)), <<"/t:Clean">> >>

\* The command line of the launch of r, as one string.
CommandLine(r) ==
    IF spawns[r][1].cmd = <<"cmd">> THEN spawns[r][1].args[3]
    ELSE Join(spawns[r][1].args, <<" ">>) \o <<"\"">>

DefaultConfig == IF Truthy(env.DELPHI_CONFIG) THEN env.DELPHI_CONFIG[1] ELSE <<"Release">>
DefaultPlatform == IF Truthy(env.DELPHI_PLATFORM) THEN env.DELPHI_PLATFORM[1] ELSE <<"Win32">>

HasPiece(s, x) == \E i \in 1..Len(s) : s[i] = x

\* C9: a build that omits configuration and platform runs with
\* /p:Config=<DELPHI_CONFIG or Release> /p:Platform=<DELPHI_PLATFORM or
\* Win32>; a clean that omits the configuration passes no /p:Config flag, and
\* its omitted platform is <DELPHI_PLATFORM or Win32>.
C9_ProtocolDefaults ==
    \A r \in Requests :
        (Validated(r) /\ IsMSBuild(r)) =>
            /\ (req[r].tool = "delphi.build" /\ req[r].input.configuration = None
                    /\ req[r].input.platform = None) =>
                  EndsWith(CommandLine(r),
                           <<" ", "/t:Build", " ", "/p:Config=">> \o DefaultConfig
                               \o <<" ", "/p:Platform=">> \o DefaultPlatform \o <<"\"">>)
            /\ (req[r].tool = "delphi.clean" /\ req[r].input.configuration = None) =>
                  ~HasPiece(CommandLine(r), "/p:Config=")
            /\ (req[r].tool = "delphi.clean" /\ req[r].input.configuration = None
                    /\ req[r].input.platform = None) =>
                  EndsWith(CommandLine(r),
                           <<" ", "/t:Clean", " ", "/p:Platform=">> \o DefaultPlatform
                               \o <<"\"">>)

C9_Witness ==
    \E r \in Requests :
        /\ Validated(r)
        /\ req[r].tool = "delphi.clean"
        /\ req[r].input.configuration = None
        /\ req[r].input.platform = None
        /\ Truthy(env.DELPHI_CONFIG)
        /\ ~Truthy(env.DELPHI_PLATFORM)
        /\ spawns[r][1].args =
              << Quoted(ResolvedPath(r)), <<"/t:Clean">>, <<"/p:Platform=", "Win32">> >>

\* The launch of r runs this tool: as the command of a direct launch, or
\* after the script's && in the instruction of a wrapped one.
RunsTool(r, tool) ==
    IF spawns[r][1].cmd = <<"cmd">>
    THEN Contains(spawns[r][1].args[3],
                  <<"\"", " && ">> \o tool \o <<" ">> \o Quoted(ResolvedPath(r)))
    ELSE spawns[r][1].cmd = tool

\* The launch of r calls this script before the tool.
CallsScript(r, script) ==
    /\ spawns[r][1].cmd = <<"cmd">>
    /\ Contains(spawns[r][1].args[3],
                <<"@echo off", " && ", "call ", "\"">> \o script \o <<"\"", " && ">>)

CallsNoScript(r) ==
    /\ spawns[r][1].cmd /= <<"cmd">>
    /\ \A i \in 1..Len(spawns[r][1].args) : ~HasPiece(spawns[r][1].args[i], "call ")

\* C14: a project build/clean runs the request's msbuildPath if non-empty,
\* else MSBUILD_PATH, else msbuild; the script candidate is the request's
\* rsvarsPath if non-empty, else RSVARS_BAT, else RSVARS_PATH, and only that
\* one candidate is tested for existence: when it is missing no script is
\* called, even if a candidate of lower precedence exists.
C14_FixedPrecedence ==
    \A r \in Requests :
        (Validated(r) /\ IsMSBuild(r)) =>
            LET in == req[r].input
                onDisk(o) == resolve(o[1]) \in fs
            IN  /\ Len(spawns[r]) = 1
                /\ NonEmpty(in.msbuildPath) => RunsTool(r, in.msbuildPath[1])
                /\ (~NonEmpty(in.msbuildPath) /\ NonEmpty(env.MSBUILD_PATH)) =>
                       RunsTool(r, env.MSBUILD_PATH[1])
                /\ (~NonEmpty(in.msbuildPath) /\ ~NonEmpty(env.MSBUILD_PATH)) =>
                       RunsTool(r, <<"msbuild">>)
                /\ NonEmpty(in.rsvarsPath) =>
                       IF onDisk(in.rsvarsPath) THEN CallsScript(r, in.rsvarsPath[1])
                       ELSE CallsNoScript(r)
                /\ (~NonEmpty(in.rsvarsPath) /\ NonEmpty(env.RSVARS_BAT)) =>
                       IF onDisk(env.RSVARS_BAT) THEN CallsScript(r, env.RSVARS_BAT[1])
                       ELSE CallsNoScript(r)
                /\ (~NonEmpty(in.rsvarsPath) /\ ~NonEmpty(env.RSVARS_BAT)
                        /\ NonEmpty(env.RSVARS_PATH)) =>
                       IF onDisk(env.RSVARS_PATH) THEN CallsScript(r, env.RSVARS_PATH[1])
                       ELSE CallsNoScript(r)
                /\ (~NonEmpty(in.rsvarsPath) /\ ~NonEmpty(env.RSVARS_BAT)
                        /\ ~NonEmpty(env.RSVARS_PATH)) => CallsNoScript(r)

\* The request names a script that is missing while the scripts of the
\* environment exist, and a tool while MSBUILD_PATH is set: its own tool is
\* launched directly.
C14_Witness ==
    \E r \in Requests :
        /\ Validated(r) /\ IsMSBuild(r)
        /\ req[r].input.rsvarsPath = Some(ScriptReq)
        /\ ScriptReq \notin fs
        /\ env.RSVARS_BAT = Some(ScriptBat) /\ ScriptBat \in fs
        /\ env.RSVARS_PATH = Some(ScriptPath) /\ ScriptPath \in fs
        /\ req[r].input.msbuildPath = Some(<<"m2">>)
        /\ env.MSBUILD_PATH = Some(<<"mb">>)
        /\ spawns[r][1].cmd = <<"m2">>
        /\ CallsNoScript(r)

----------------------------------------------------------------------------
\* Properties of the compiler helper (SpecFpc).

\* One flag per entry of a list argument, in the order given.
RECURSIVE Flags(_, _, _)
Flags(flag, xs, absolute) ==
    IF xs = <<>> THEN <<>>
    ELSE << <<flag>> \o (IF absolute THEN resolve(Head(xs)) ELSE Head(xs)) >>
            \o Flags(flag, Tail(xs), absolute)

Given(o) == IF o = None THEN <<>> ELSE o[1]

ExpectedFpcVector(r) ==
    LET in == req[r].input IN
    (IF NonEmpty(in.cpu) THEN << <<"-P">> \o in.cpu[1] >> ELSE <<>>)
        \o (IF NonEmpty(in.os) THEN << <<"-T">> \o in.os[1] >> ELSE <<>>)
        \o (IF NonEmpty(in.output) THEN << <<"-o">> \o resolve(in.output[1]) >> ELSE <<>>)
        \o Flags("-d", Given(in.defines), FALSE)
        \o Flags("-Fu", Given(in.unitPaths), TRUE)
        \o Flags("-Fi", Given(in.includePaths), TRUE)
        \o << Quoted(ResolvedPath(r)) >>

\* C6: the argument vector of a compile request is -P<cpu>, -T<os>,
\* -o<absolute output> (each if given), a -d flag per define, a -Fu flag per
\* unit path, a -Fi flag per include path, each list in its order, and the
\* quoted absolute source path last, with nothing else.
C6_FpcVector ==
    \A r \in Requests :
        (Validated(r) /\ req[r].tool = "fpc.build") =>
            /\ Len(spawns[r]) = 1
            /\ spawns[r][1].args = ExpectedFpcVector(r)

C6_Witness ==
    \E r \in Requests :
        /\ Validated(r)
        /\ req[r].tool = "fpc.build"
        /\ req[r].input.source = <<"a">> \o ExtLpr
        /\ spawns[r][1].args =
              << <<"-P", "x86_64">>, <<"-T", "win64">>, <<"-d", "B=1">>,
                 <<"-Fu">> \o Cwd \o <<"/", "u">>, Quoted(Cwd \o <<"/", "a">> \o ExtLpr) >>

----------------------------------------------------------------------------
\* Properties of the Lazarus helpers (SpecFpc).

ExpectedLazarusVector(r) ==
    LET in == req[r].input IN
    IF req[r].tool = "lazarus.clean"
    THEN << <<"--clean">>, Quoted(ResolvedPath(r)) >>
    ELSE (IF NonEmpty(in.buildMode) THEN << <<"--build-mode=">> \o in.buildMode[1] >>
                                    ELSE <<>>)
            \o (IF NonEmpty(in.cpu) THEN << <<"--cpu=">> \o in.cpu[1] >> ELSE <<>>)
            \o (IF NonEmpty(in.os) THEN << <<"--os=">> \o in.os[1] >> ELSE <<>>)
            \o << Quoted(ResolvedPath(r)) >>

\* C13: the argument vector of a lazarus.build request is
\* --build-mode=<buildMode>, --cpu=<cpu>, --os=<os> (each only if given, and
\* never a bare --build-mode= token), then the quoted absolute project path
\* last; that of a lazarus.clean request is exactly --clean followed by the
\* quoted absolute project path.
C13_LazarusVector ==
    \A r \in Requests :
        (Validated(r) /\ req[r].tool \in {"lazarus.build", "lazarus.clean"}) =>
            /\ Len(spawns[r]) = 1
            /\ spawns[r][1].args = ExpectedLazarusVector(r)
            /\ \A i \in 1..Len(spawns[r][1].args) :
                 spawns[r][1].args[i] /= <<"--build-mode=">>

\* A build without build mode and with a target CPU: the vector starts with
\* the --cpu flag.
C13_Witness ==
    \E r \in Requests :
        /\ Validated(r)
        /\ req[r].tool = "lazarus.build"
        /\ req[r].input.buildMode = None
        /\ spawns[r][1].args =
              << <<"--cpu=", "x86_64">>, <<"--os=", "win64">>,
                 Quoted(Cwd \o <<"/", "a">> \o ExtLpi) >>

====
